---- MODULE Spec2Model ----
(***************************************************************************)
(* Model of speedtest_app.py: a SQLite table of measurement records, the   *)
(* module-level measurement runner run_speedtest(), fetch_records(), the   *)
(* periodic background thread and the Tk application with its manual       *)
(* worker threads.                                                          *)
(*                                                                         *)
(* Threads: the UI (main) thread, the background thread bg, and one        *)
(* worker thread per accepted manual request (slots 1..MaxWorkers).        *)
(* A thread's statements that touch shared state (the database, the        *)
(* Treeview, the status label, is_testing) are separate steps; the Python  *)
(* GIL gives no coarser atomicity than that.  Code run on the main thread  *)
(* (constructor, callbacks) is one step: the main loop serves no other     *)
(* thread's Tk call while it runs.                                         *)
(***************************************************************************)
EXTENDS Integers, Sequences, FiniteSets, TLC

(* ---------------------------- bounds ---------------------------------- *)
MaxRows == 3
MaxPriorRows == 1
MaxWorkers == 2
MaxFetchRows == 6
MaxLimit == 7

(* ------------------------ program constants --------------------------- *)
BitsPerMegabit == 1000000
DefaultRecords == 5
DisplayChoices == {5, 10, 20}

(* --------------------- inputs from the environment --------------------- *)
RawDownloads == {50000000}
RawUploads == {10000000}
Pings == {12}
Timestamps == {1}
Servers == {[sponsor |-> "ISP", name |-> "Town", country |-> "Land"]}
MeasurementErrors == {"timeout"}
StorageErrors == {"database is locked"}

VARIABLES
  tableExists,   \* the results table exists in DB_FILE
  store,         \* committed rows of results, in rowid order
  dbLock,        \* thread holding SQLite's write lock, or NoThread
  uiPc,          \* position of the main thread
  pendingClick,  \* a press of "Run Test" waits in the Tk event queue
  is_testing,    \* SpeedTestApp.is_testing
  status,        \* text of status_label
  selected,      \* records_to_display
  tree,          \* rows of the Treeview, top to bottom
  lastRefresh,   \* how the refresh_data call that ended last ended
  pc,            \* position of bg (0) and of each worker slot
  rec,           \* locals of run_speedtest() being assembled into a row
  result,        \* value returned by run_speedtest() to the thread
  records,       \* local `records` of refresh_data() still to be inserted
  attempts,      \* measurements begun by the current run_speedtest() call
  writes,        \* rows committed by the current run_speedtest() call
  limit,         \* argument of the last direct fetch_records() query
  rows           \* value returned by the last direct fetch_records() query

vars == <<tableExists, store, dbLock, uiPc, pendingClick, is_testing, status,
          selected, tree, lastRefresh, pc, rec, result, records, attempts,
          writes, limit, rows>>

dbVars == <<tableExists, store, dbLock>>
uiVars == <<uiPc, pendingClick, is_testing, status, selected, tree, lastRefresh>>
threadVars == <<pc, rec, result, records, attempts, writes>>
queryVars == <<limit, rows>>

bg == 0
Workers == 1..MaxWorkers
Threads == {bg} \cup Workers
NoThread == -1

NoResult == [none |-> TRUE]
NoRec == [none |-> TRUE]

Columns == {"timestamp", "download", "upload", "ping", "server_name", "server_location"}

StatusReady == <<"Press 'Run Test' to start a speed test">>
StatusRunning == <<"Running speed test...">>
StatusCompleted == <<"Speed test completed!">>
StatusError(msg) == <<"Error: ", msg>>

Min(a, b) == IF a < b THEN a ELSE b

(* ------------------------------ the store ------------------------------ *)

\* a column of a row; a column the row does not carry is NULL, shown as <<>>
Column(row, c) == IF c \in DOMAIN row THEN <<row[c]>> ELSE <<>>

\* SELECT timestamp, download, upload, ping, server_name, server_location
Project(row) ==
  <<Column(row, "timestamp"), Column(row, "download"), Column(row, "upload"),
    Column(row, "ping"), Column(row, "server_name"), Column(row, "server_location")>>

Keys(s) == {s[i].id : i \in 1..Len(s)}

\* a key generator that hands out the first key again
NextKey_reused(s) == 1

\* id INTEGER PRIMARY KEY AUTOINCREMENT: one more than the largest key
NextKey(s) == IF s = <<>> THEN 1
              ELSE (CHOOSE k \in Keys(s) : \A j \in Keys(s) : j <= k) + 1

\* ORDER BY id DESC over the rows at the positions idx
RECURSIVE OrderByIdDesc(_, _)
OrderByIdDesc(s, idx) ==
  IF idx = {} THEN <<>>
  ELSE LET top == CHOOSE i \in idx : \A j \in idx : s[j].id <= s[i].id
       IN <<s[top]>> \o OrderByIdDesc(s, idx \ {top})

\* a LIMIT that lets one row too many through
Limit_oneMore(q, n) == SubSeq(q, 1, Min(n + 1, Len(q)))

\* LIMIT ?: a negative limit means no limit in SQLite
Limit(q, n) == IF n < 0 THEN q ELSE SubSeq(q, 1, Min(n, Len(q)))

fetch_records(s, n) ==
  LET q == Limit(OrderByIdDesc(s, 1..Len(s)), n)
  IN [i \in 1..Len(q) |-> Project(q[i])]

\* st.download() / 1_000_000
ToMbps(bits) == bits \div BitsPerMegabit

PriorRow(k) == [id |-> k, timestamp |-> 1, download |-> ToMbps(50000000),
                upload |-> ToMbps(10000000), ping |-> 12,
                server_name |-> "ISP", server_location |-> <<"Town", "Land">>]

PriorStore(k) == [i \in 1..k |-> PriorRow(i)]


(* --------------------------- initial state ----------------------------- *)

\* the process starts with whatever DB_FILE earlier runs left behind
Init ==
  /\ tableExists \in BOOLEAN
  /\ store \in {PriorStore(k) : k \in 0..(IF tableExists THEN MaxPriorRows ELSE 0)}
  /\ dbLock = NoThread
  /\ uiPc = "init_db"
  /\ pendingClick = FALSE
  /\ is_testing = FALSE
  /\ status = <<>>
  /\ selected = DefaultRecords
  /\ tree = <<>>
  /\ lastRefresh = "none"
  /\ pc = [t \in Threads |-> IF t = bg THEN "not_started" ELSE "free"]
  /\ rec = [t \in Threads |-> NoRec]
  /\ result = [t \in Threads |-> NoResult]
  /\ records = [t \in Threads |-> <<>>]
  /\ attempts = [t \in Threads |-> 0]
  /\ writes = [t \in Threads |-> 0]
  /\ limit = 0
  /\ rows = <<>>

(* ----------------------- construction (main thread) -------------------- *)

\* CREATE TABLE IF NOT EXISTS; a storage error ends the process at startup
initialize_database ==
  /\ uiPc = "init_db"
  /\ \/ /\ tableExists' = TRUE
        /\ uiPc' = "create_widgets"
     \/ /\ uiPc' = "terminated"
        /\ UNCHANGED tableExists
  /\ UNCHANGED <<store, dbLock, pendingClick, is_testing, status, selected, tree, lastRefresh>>
  /\ UNCHANGED <<threadVars, queryVars>>

\* refresh_data() run on the main thread: no other thread's Tk call is
\* served while the main thread is inside a callback or the constructor
RefreshOnMain(n) ==
  \/ /\ tableExists
     /\ tree' = fetch_records(store, n)
     /\ lastRefresh' = "completed"
  \/ /\ tree' = <<>>
     /\ lastRefresh' = "raised"

\* the rest of SpeedTestApp.__init__: widgets, first refresh, flag, bg thread
SpeedTestApp_init ==
  /\ uiPc = "create_widgets"
  /\ selected' = DefaultRecords
  /\ status' = StatusReady
  /\ RefreshOnMain(DefaultRecords)
  /\ IF lastRefresh' = "completed"
     THEN /\ is_testing' = FALSE
          /\ pc' = [pc EXCEPT ![bg] = "sleep"]
          /\ uiPc' = "mainloop"
     ELSE /\ uiPc' = "terminated"
          /\ UNCHANGED <<is_testing, pc>>
  /\ UNCHANGED <<dbVars, pendingClick, rec, result, records, attempts, writes, queryVars>>

(* ------------------------- run_speedtest() ----------------------------- *)

AfterRun(t) == IF t = bg THEN "rf_clear" ELSE "w_status"

\* entry into run_speedtest() from a caller
Call(t) ==
  /\ pc' = [pc EXCEPT ![t] = "st_init"]
  /\ rec' = [rec EXCEPT ![t] = NoRec]
  /\ result' = [result EXCEPT ![t] = NoResult]
  /\ attempts' = [attempts EXCEPT ![t] = 0]
  /\ writes' = [writes EXCEPT ![t] = 0]

\* a handler that starts the measurement over instead of returning
Raise_retries(t, msg) ==
  /\ result' = result
  /\ rec' = [rec EXCEPT ![t] = NoRec]
  /\ pc' = [pc EXCEPT ![t] = "st_init"]

\* except Exception as e: print(...); return {"error": str(e)}
Raise(t, msg) ==
  /\ result' = [result EXCEPT ![t] = [error |-> msg]]
  /\ rec' = [rec EXCEPT ![t] = NoRec]
  /\ pc' = [pc EXCEPT ![t] = AfterRun(t)]

Goto(t, label) == pc' = [pc EXCEPT ![t] = label]

\* st = speedtest.Speedtest()
Speedtest_init(t) ==
  /\ pc[t] = "st_init"
  /\ attempts' = [attempts EXCEPT ![t] = @ + 1]
  /\ \/ /\ Goto(t, "best_server")
        /\ UNCHANGED <<rec, result>>
     \/ \E msg \in MeasurementErrors : Raise(t, msg)
  /\ UNCHANGED <<dbVars, uiVars, records, writes, queryVars>>

\* server = st.get_best_server(); server_name, server_location
get_best_server(t) ==
  /\ pc[t] = "best_server"
  /\ \/ \E server \in Servers :
          /\ rec' = [rec EXCEPT ![t] = [server_name |-> server.sponsor,
                                        server_location |-> <<server.name, server.country>>]]
          /\ Goto(t, "download")
          /\ UNCHANGED result
     \/ \E msg \in MeasurementErrors : Raise(t, msg)
  /\ UNCHANGED <<dbVars, uiVars, records, attempts, writes, queryVars>>

\* download_speed = st.download() / 1_000_000
download(t) ==
  /\ pc[t] = "download"
  /\ \/ \E bits \in RawDownloads :
          /\ rec' = [rec EXCEPT ![t] = [server_name |-> @.server_name,
                                        server_location |-> @.server_location,
                                        download |-> ToMbps(bits)]]
          /\ Goto(t, "upload")
          /\ UNCHANGED result
     \/ \E msg \in MeasurementErrors : Raise(t, msg)
  /\ UNCHANGED <<dbVars, uiVars, records, attempts, writes, queryVars>>

\* upload_speed = st.upload() / 1_000_000; ping; timestamp = datetime.now()
upload(t) ==
  /\ pc[t] = "upload"
  /\ \/ \E bits \in RawUploads, p \in Pings, now \in Timestamps :
          /\ rec' = [rec EXCEPT ![t] = [server_name |-> @.server_name,
                                        server_location |-> @.server_location,
                                        download |-> @.download,
                                        upload |-> ToMbps(bits),
                                        ping |-> p,
                                        timestamp |-> now]]
          /\ Goto(t, "db_execute")
          /\ UNCHANGED result
     \/ \E msg \in MeasurementErrors : Raise(t, msg)
  /\ UNCHANGED <<dbVars, uiVars, records, attempts, writes, queryVars>>

\* an INSERT that leaves the ping column out
NewRow_withoutPing(r, k) ==
  [id |-> k, timestamp |-> r.timestamp, download |-> r.download, upload |-> r.upload,
   server_name |-> r.server_name, server_location |-> r.server_location]

\* the row of INSERT INTO results (timestamp, download, upload, ping,
\* server_name, server_location) VALUES (?, ?, ?, ?, ?, ?)
NewRow(r, k) ==
  [id |-> k, timestamp |-> r.timestamp, download |-> r.download, upload |-> r.upload,
   ping |-> r.ping, server_name |-> r.server_name, server_location |-> r.server_location]

\* a store that lets writers in side by side
CanWrite_unlocked(t) == TRUE

\* SQLite lets one connection at a time hold the write lock
CanWrite(t) == dbLock = NoThread

\* sqlite3.connect(DB_FILE); cursor.execute(INSERT ...): takes the write
\* lock and assigns the key, or raises (locked past the timeout, I/O error)
db_execute(t) ==
  /\ pc[t] = "db_execute"
  /\ \/ /\ CanWrite(t)
        /\ tableExists
        /\ Len(store) < MaxRows
        /\ dbLock' = t
        /\ rec' = [rec EXCEPT ![t] = NewRow(@, NextKey(store))]
        /\ Goto(t, "db_commit")
        /\ UNCHANGED result
     \/ /\ \E msg \in StorageErrors : Raise(t, msg)
        /\ UNCHANGED dbLock
  /\ UNCHANGED <<tableExists, store, uiVars, records, attempts, writes, queryVars>>

\* conn.commit(): the row becomes visible and the lock is released; on an
\* error the with-block rolls the insert back
db_commit(t) ==
  /\ pc[t] = "db_commit"
  /\ dbLock' = NoThread
  /\ \/ /\ store' = Append(store, rec[t])
        /\ writes' = [writes EXCEPT ![t] = @ + 1]
        /\ Goto(t, "rs_return")
        /\ UNCHANGED <<rec, result>>
     \/ /\ \E msg \in StorageErrors : Raise(t, msg)
        /\ UNCHANGED <<store, writes>>
  /\ UNCHANGED <<tableExists, uiVars, records, attempts, queryVars>>

\* return {"timestamp": ..., ..., "server_location": ...}
ResultOf(r) ==
  [timestamp |-> r.timestamp, download |-> r.download, upload |-> r.upload,
   ping |-> r.ping, server_name |-> r.server_name, server_location |-> r.server_location]

run_speedtest_return(t) ==
  /\ pc[t] = "rs_return"
  /\ result' = [result EXCEPT ![t] = ResultOf(rec[t])]
  /\ rec' = [rec EXCEPT ![t] = NoRec]
  /\ Goto(t, AfterRun(t))
  /\ UNCHANGED <<dbVars, uiVars, records, attempts, writes, queryVars>>

run_speedtest(t) ==
  \/ Speedtest_init(t)
  \/ get_best_server(t)
  \/ download(t)
  \/ upload(t)
  \/ db_execute(t)
  \/ db_commit(t)
  \/ run_speedtest_return(t)

(* --------------------------- refresh_data() ---------------------------- *)

AfterRefresh(t) == IF t = bg THEN "sleep" ELSE "w_clear"

\* for row in self.tree.get_children(): self.tree.delete(row)
\* (a Tk call from another thread is served by the main loop; the loop
\* over the children is taken as one step that empties the tree)
rf_clear(t) ==
  /\ pc[t] = "rf_clear"
  /\ uiPc = "mainloop"
  /\ tree' = <<>>
  /\ Goto(t, "rf_fetch")
  /\ UNCHANGED <<dbVars, uiPc, pendingClick, is_testing, status, selected, lastRefresh>>
  /\ UNCHANGED <<rec, result, records, attempts, writes, queryVars>>

\* records = fetch_records(self.records_to_display.get()); fetch_records has
\* no handler, so a storage error leaves refresh_data() and ends the thread
rf_fetch(t) ==
  /\ pc[t] = "rf_fetch"
  /\ uiPc = "mainloop"
  /\ \/ /\ tableExists
        /\ records' = [records EXCEPT ![t] = fetch_records(store, selected)]
        /\ Goto(t, "rf_insert")
        /\ UNCHANGED <<lastRefresh, result>>
     \/ /\ lastRefresh' = "raised"
        /\ Goto(t, "dead")
        /\ result' = [result EXCEPT ![t] = NoResult]
        /\ UNCHANGED records
  /\ UNCHANGED <<dbVars, uiPc, pendingClick, is_testing, status, selected, tree>>
  /\ UNCHANGED <<rec, attempts, writes, queryVars>>

\* for record in records: self.tree.insert('', 'end', values=record)
rf_insert(t) ==
  /\ pc[t] = "rf_insert"
  /\ uiPc = "mainloop"
  /\ IF records[t] # <<>>
     THEN /\ tree' = Append(tree, Head(records[t]))
          /\ records' = [records EXCEPT ![t] = Tail(@)]
          /\ UNCHANGED <<pc, lastRefresh, result>>
     ELSE /\ lastRefresh' = "completed"
          /\ Goto(t, AfterRefresh(t))
          /\ result' = [result EXCEPT ![t] = IF t = bg THEN NoResult ELSE @]
          /\ UNCHANGED <<tree, records>>
  /\ UNCHANGED <<dbVars, uiPc, pendingClick, is_testing, status, selected>>
  /\ UNCHANGED <<rec, attempts, writes, queryVars>>

refresh_data(t) ==
  \/ rf_clear(t)
  \/ rf_fetch(t)
  \/ rf_insert(t)

(* -------------------- background_speedtest_service --------------------- *)

\* a periodic path that waits for the busy flag
MayFire_whenIdle == ~is_testing

\* the periodic path starts a run whatever is_testing says
MayFire == TRUE

\* time.sleep(60) returns and run_speedtest() is called
Fire ==
  /\ pc[bg] = "sleep"
  /\ MayFire
  /\ Call(bg)
  /\ UNCHANGED <<dbVars, uiVars, records, queryVars>>

background_speedtest_service ==
  \/ Fire
  \/ run_speedtest(bg)
  \/ refresh_data(bg)

(* ------------------------ manual measurements -------------------------- *)

\* the user presses "Run Test"
Click ==
  /\ uiPc = "mainloop"
  /\ ~pendingClick
  /\ pendingClick' = TRUE
  /\ UNCHANGED <<dbVars, uiPc, is_testing, status, selected, tree, lastRefresh>>
  /\ UNCHANGED <<threadVars, queryVars>>

\* a button handler without the guard
Accepts_always == TRUE

\* if not self.is_testing:
Accepts == ~is_testing

FreeSlots == {w \in Workers : pc[w] = "free"}

\* SpeedTestApp.run_speedtest_thread, the button's command
run_speedtest_thread ==
  /\ uiPc = "mainloop"
  /\ pendingClick
  /\ pendingClick' = FALSE
  /\ IF Accepts /\ FreeSlots # {}
     THEN /\ is_testing' = TRUE
          /\ status' = StatusRunning
          /\ LET w == CHOOSE v \in FreeSlots : \A u \in FreeSlots : v <= u
             IN Call(w)
     ELSE UNCHANGED <<is_testing, status, pc, rec, result, attempts, writes>>
  /\ UNCHANGED <<dbVars, uiPc, selected, tree, lastRefresh, records, queryVars>>

\* the status update of SpeedTestApp.run_speedtest after the runner returned
w_status(w) ==
  /\ pc[w] = "w_status"
  /\ uiPc = "mainloop"
  /\ IF "error" \in DOMAIN result[w]
     THEN /\ status' = StatusError(result[w].error)
          /\ Goto(w, "w_clear")
     ELSE /\ status' = StatusCompleted
          /\ Goto(w, "rf_clear")
  /\ UNCHANGED <<dbVars, uiPc, pendingClick, is_testing, selected, tree, lastRefresh>>
  /\ UNCHANGED <<rec, result, records, attempts, writes, queryVars>>

\* self.is_testing = False, the last statement of the worker
w_clear(w) ==
  /\ pc[w] = "w_clear"
  /\ is_testing' = FALSE
  /\ Goto(w, "free")
  /\ result' = [result EXCEPT ![w] = NoResult]
  /\ UNCHANGED <<dbVars, uiPc, pendingClick, status, selected, tree, lastRefresh>>
  /\ UNCHANGED <<rec, records, attempts, writes, queryVars>>

SpeedTestApp_run_speedtest(w) ==
  \/ run_speedtest(w)
  \/ w_status(w)
  \/ refresh_data(w)
  \/ w_clear(w)

\* the user picks a row count; <<ComboboxSelected>> runs refresh_data()
ComboboxSelected ==
  /\ uiPc = "mainloop"
  /\ \E n \in DisplayChoices :
       /\ selected' = n
       /\ RefreshOnMain(n)
  /\ UNCHANGED <<dbVars, uiPc, pendingClick, is_testing, status>>
  /\ UNCHANGED <<threadVars, queryVars>>

(* ---------------------------- specification ---------------------------- *)

Next ==
  \/ initialize_database
  \/ SpeedTestApp_init
  \/ Click
  \/ run_speedtest_thread
  \/ ComboboxSelected
  \/ background_speedtest_service
  \/ \E w \in Workers : SpeedTestApp_run_speedtest(w)

Spec == Init /\ [][Next]_vars

\* every started thread keeps running; the user owes the program nothing
FairSpec ==
  /\ Spec
  /\ WF_vars(initialize_database)
  /\ WF_vars(SpeedTestApp_init)
  /\ WF_vars(run_speedtest_thread)
  /\ WF_vars(background_speedtest_service)
  /\ \A w \in Workers : WF_vars(SpeedTestApp_run_speedtest(w))

(* --------------- fetch_records() as a function of the store ------------ *)

RowVariants == {PriorRow(1), [PriorRow(1) EXCEPT !.download = ToMbps(100000000)]}

FetchStores ==
  UNION {{[i \in 1..k |-> [f[i] EXCEPT !.id = i]] : f \in [1..k -> RowVariants]}
         : k \in 0..MaxFetchRows}

Limits == (0..MaxLimit) \cup DisplayChoices

InitFetch ==
  /\ tableExists = TRUE
  /\ store \in FetchStores
  /\ dbLock = NoThread
  /\ uiPc = "mainloop"
  /\ pendingClick = FALSE
  /\ is_testing = FALSE
  /\ status = StatusReady
  /\ selected = DefaultRecords
  /\ tree = fetch_records(store, DefaultRecords)
  /\ lastRefresh = "completed"
  /\ pc = [t \in Threads |-> IF t = bg THEN "sleep" ELSE "free"]
  /\ rec = [t \in Threads |-> NoRec]
  /\ result = [t \in Threads |-> NoResult]
  /\ records = [t \in Threads |-> <<>>]
  /\ attempts = [t \in Threads |-> 0]
  /\ writes = [t \in Threads |-> 0]
  /\ limit = 0
  /\ rows = <<>>

\* rows = fetch_records(limit)
FetchRecords ==
  /\ tableExists
  /\ \E n \in Limits :
       /\ limit' = n
       /\ rows' = fetch_records(store, n)
  /\ UNCHANGED <<dbVars, uiVars, threadVars>>

NextFetch == FetchRecords

SpecFetch == InitFetch /\ [][NextFetch]_vars

(* ------------------------------ properties ----------------------------- *)

RunPcs == {"st_init", "best_server", "download", "upload", "db_execute", "db_commit", "rs_return"}
RefreshPcs == {"rf_clear", "rf_fetch", "rf_insert"}

Succeeded(t) == Columns \subseteq DOMAIN result[t]
Failed(t) == "error" \in DOMAIN result[t]
Complete(row) == Columns \subseteq DOMAIN row

\* thread t commits its row in this step
Commits(t) == pc[t] = "db_commit" /\ pc'[t] = "rs_return"

\* C1: a successful run_speedtest() call has written exactly one row, which
\* carries all six fields; the row count grows by exactly one at its commit
\* and by nothing else; no row of the store is a partial record.
C1_OneCompleteRowPerSuccess ==
  /\ [](/\ \A t \in Threads : Succeeded(t) => writes[t] = 1
        /\ \A t \in Threads : pc[t] = "rs_return" =>
              /\ writes[t] = 1
              /\ Complete(rec[t])
              /\ Cardinality({i \in 1..Len(store) : store[i] = rec[t]}) = 1
        /\ \A i \in 1..Len(store) : Complete(store[i]))
  /\ [][/\ (\E t \in Threads : Commits(t)) => Len(store') = Len(store) + 1
        /\ (\A t \in Threads : ~Commits(t)) => Len(store') = Len(store)]_vars

C1_Witness ==
  \E t \in Threads : Succeeded(t) /\ writes[t] = 1 /\ Len(store) > 0

\* C2: a failed run_speedtest() call hands an error descriptor back to its
\* caller (the thread does not die in the runner), has written no row, and
\* has begun the measurement once only.
C2_FailureReturnsDescriptor ==
  /\ [](\A t \in Threads :
          /\ attempts[t] <= 1
          /\ Failed(t) =>
               /\ result[t].error \in MeasurementErrors \cup StorageErrors
               /\ writes[t] = 0
               /\ attempts[t] = 1
               /\ pc[t] \notin RunPcs)
  /\ [][\A t \in Threads :
          /\ (Failed(t)' /\ ~Failed(t)) =>
                (pc[t] \in RunPcs /\ pc'[t] = AfterRun(t) /\ store' = store)
          /\ (pc[t] \in RunPcs /\ pc'[t] \notin RunPcs) =>
                (pc'[t] = AfterRun(t) /\ (Failed(t)' \/ Succeeded(t)'))]_vars

C2_Witness ==
  \E t \in Threads : Failed(t) /\ writes[t] = 0 /\ result[t].error \in StorageErrors

\* C3: fetch_records(limit) returns min(limit, row count) records, the i-th
\* being the row with exactly i-1 larger keys (so the rows with the largest
\* keys, in strictly descending key order); empty for an empty store; the
\* store is left as it was.
C3_ListRecent ==
  /\ [](/\ Len(rows) = Min(limit, Len(store))
        /\ \A i \in 1..Len(rows) :
              \E j \in 1..Len(store) :
                 /\ rows[i] = Project(store[j])
                 /\ Cardinality({k \in Keys(store) : k > store[j].id}) = i - 1
        /\ store = <<>> => rows = <<>>)
  /\ [][store' = store]_vars

C3_Witness ==
  /\ limit > 1
  /\ limit < Len(store)
  /\ Len(rows) = limit
  /\ rows[1] # rows[2]

InFlight == {w \in Workers : pc[w] \notin {"free", "dead"}}

\* C5: a manual request handled while is_testing is set starts no thread and
\* leaves the flag, the status text and the store alone; at most one manual
\* measurement is in flight in every reachable state.
C5_BusyRequestDropped ==
  /\ [](Cardinality(InFlight) <= 1)
  /\ [][(pendingClick /\ ~pendingClick' /\ is_testing) =>
          /\ is_testing' = is_testing
          /\ status' = status
          /\ store' = store
          /\ pc' = pc]_vars

C5_Witness ==
  /\ pendingClick
  /\ is_testing
  /\ Cardinality(InFlight) = 1
  /\ pc[bg] \in RunPcs

\* C6: when the runs of two threads overlap and both commit, each commit
\* appends its own row under a key no other row has and keeps every row
\* already there; once both have committed both rows are in the store.
C6_OverlappingRunsBothPersist ==
  /\ [](/\ \A i, j \in 1..Len(store) : i # j => store[i].id # store[j].id
        /\ \A t, u \in Threads :
              (t # u /\ pc[t] = "rs_return" /\ pc[u] = "rs_return") =>
                 \E i, j \in 1..Len(store) :
                    /\ i # j
                    /\ store[i] = rec[t]
                    /\ store[j] = rec[u]
                    /\ rec[t].id # rec[u].id)
  /\ [][\A t, u \in Threads :
          (t # u /\ Commits(t) /\ pc[u] \in RunPcs) =>
             /\ store' = Append(store, rec[t])
             /\ rec[t].id \notin Keys(store)]_vars

C6_Witness ==
  /\ pc[bg] = "rs_return"
  /\ \E w \in Workers : pc[w] = "rs_return"
  /\ Len(store) >= 2

\* C9: no step changes or removes a row that is in the store, the row count
\* never decreases, and a row added by a step has a key above every key that
\* was there.
C9_RowsImmutable ==
  [][/\ Len(store') >= Len(store)
     /\ \A i \in 1..Len(store) : store'[i] = store[i]
     /\ \A i \in (Len(store) + 1)..Len(store') :
           \A k \in Keys(store) : store'[i].id > k]_vars

C9_Witness ==
  /\ Len(store) >= 2
  /\ store[2].id > store[1].id
  /\ \E t \in Threads : writes[t] = 1

C4_BusyGuardCleared ==
  (is_testing /\ \E w \in Workers : pc[w] = "w_status") ~> ~is_testing

\* C7: after a periodic firing whose runner call has returned, another
\* periodic firing eventually occurs.
C7_PeriodicKeepsFiring ==
  (pc[bg] = "rf_clear") ~> (pc[bg] = "st_init")

\* C8: whenever no refresh_data call is in progress and the last one to end
\* completed, the rendered list has at most the selected count of rows and
\* is the result of fetch_records(selected count) on some content the store
\* has had.
C8_RenderedListIsAQuery ==
  ((\A t \in Threads : pc[t] \notin RefreshPcs) /\ lastRefresh = "completed") =>
     /\ Len(tree) <= selected
     /\ \E k \in 0..Len(store) : tree = fetch_records(SubSeq(store, 1, k), selected)

====
